---- MODULE Spec2Model ----
(***************************************************************************)
(* Model of src/src/client.rs: the caps-lock synchronisation client.       *)
(*                                                                         *)
(* main() is the supervisor loop (lines 126-196).  Each successful connect *)
(* creates a session: the websocket stream, the unbounded channel (tx,rx), *)
(* the reader task (its JoinHandle is named write_handle in the source)    *)
(* and the state checker task (JoinHandle read_handle).  Tasks are created *)
(* with tokio::spawn; main awaits both JoinHandles in tokio::select!, and  *)
(* when one completes the other JoinHandle is dropped.  Dropping a         *)
(* JoinHandle detaches the task, it does not abort it, so a task of an     *)
(* earlier session keeps running until its own loop ends.  Sessions are    *)
(* therefore indexed by their number and keep their state after main has   *)
(* left them.                                                              *)
(*                                                                         *)
(* The platform module is the linux one (lines 73-113).                    *)
(***************************************************************************)
EXTENDS Integers, Sequences, FiniteSets, TLC

\* ---------------------------------------------------------------- bounds
\* Events of the environment in one run: key presses, messages of peers
\* outside the model, failed connects, transport failures, xdotool failures.
MaxEvents == 2
\* Successful connects in one run.
MaxSessions == 2

Clients == {"A", "B"}
Sessions == 1..MaxSessions
Payloads == {"0", "1", "banana"}
NoMsg == [payload |-> "none", from |-> "none"]

VARIABLES
    ind,            \* the OS caps-lock LED of each machine
    sup,            \* position of main(): off, connect, delay, send_initial, select, exited
    sid,            \* number of successful connects = index of the newest session
    initial_state,  \* line 133
    write_handle,   \* reader task of each session: none, run, done
    read_handle,    \* state checker task: none, init, poll, recv, set, sleep, done,
                    \* panicked (xdotool), read_panicked (get_capslock_state)
    last_state,     \* lines 153, 164, 174
    msg,            \* the message bound at line 169, until the end of the iteration
    wrote,          \* what set_capslock_state did in this iteration: none, noop, ok, failed
    rx,             \* the unbounded channel of each session
    stream,         \* messages the relay has put on the connection, not yet read
    first_sent,     \* history: first message written to the connection of each session
    sent_update,    \* history: the state checker of the session has sent a message
    changed,        \* history: the LED changed since the session's baseline read
    zpolls,         \* history: polls by the state checker of a client's first session
                    \* after its reader task ended (max 2)
    since,          \* history: dequeue attempts since a peer's message last entered rx
    ind0,           \* history: the LED at the start, kept when two clients run
    relay_echo,     \* whether the relay may send a message back to its sender
    pressed,        \* history: the user of the machine has pressed the key
    owed,           \* history: failed connects less completed 2 second sleeps
    events          \* events of the environment so far

vars == <<ind, sup, sid, initial_state, write_handle, read_handle, last_state, msg,
          wrote, rx, stream, first_sent, sent_update, changed, zpolls, since, ind0,
          relay_echo, pressed, owed, events>>

supv == <<sup, sid, initial_state, owed>>
hist == <<first_sent, sent_update, changed, zpolls, since, ind0, relay_echo>>
env == <<pressed, events>>

\* ------------------------------------------------------- pure functions
\* if state { "1" } else { "0" }
Encode(b) == IF b THEN "1" ELSE "0"

\* The decode with the comparison against the wrong literal.
target_state_inverted(m) == m.payload = "0"

\* let target_state = text == "1";
target_state(m) == m.payload = "1"

\* platform::get_capslock_state as it returns normally (lines 83-95 with a
\* LED file that can be read)
get_capslock_state(c) == ind[c]

Min(a, b) == IF a < b THEN a ELSE b

Live(h) == h \in {"init", "poll", "recv", "set", "sleep"}
Ended(h) == h \in {"done", "panicked", "read_panicked"}

\* The connection of session s still has its read half in use.
ConnOpen(c, s) ==
    \/ s = sid[c] /\ sup[c] = "send_initial"
    \/ write_handle[c][s] = "run"

\* The relay: a message from connection (c, s) goes to every other client's
\* open connection, and back to the sender when the relay echoes.
Relay(c, s, payload, echo) ==
    [d \in Clients |-> [t \in Sessions |->
        IF ConnOpen(d, t) /\ (d # c \/ (t = s /\ echo))
        THEN Append(stream[d][t], [payload |-> payload, from |-> c])
        ELSE stream[d][t]]]

\* What the relay may do with a message as to sending it back.
Echoes == IF relay_echo THEN BOOLEAN ELSE {FALSE}

\* The LED of client c takes value v: every session of c whose baseline was
\* read sees the change.
Changed(c, v) ==
    IF v = ind[c] THEN changed
    ELSE [changed EXCEPT ![c] = [t \in Sessions |-> t <= sid[c]]]

\* What the first message written to a connection was: the baseline with
\* the value read at line 133, a baseline with another value, or a message
\* of the state checker.
FirstSent(c, was, kind, text) ==
    IF was # "none" THEN was
    ELSE IF kind = "baseline" /\ text # Encode(initial_state[c]) THEN "other"
    ELSE kind

\* ------------------------------------------------------------ initial state
InitWith(running, echoes) ==
    /\ relay_echo = echoes
    /\ ind \in {f \in [Clients -> BOOLEAN] : \A c \in Clients \ running : f[c] = FALSE}
    /\ ind0 = [c \in Clients |-> Cardinality(running) > 1 /\ ind[c]]
    /\ sup = [c \in Clients |-> IF c \in running THEN "connect" ELSE "off"]
    /\ sid = [c \in Clients |-> 0]
    /\ initial_state = [c \in Clients |-> FALSE]
    /\ write_handle = [c \in Clients |-> [s \in Sessions |-> "none"]]
    /\ read_handle = [c \in Clients |-> [s \in Sessions |-> "none"]]
    /\ last_state = [c \in Clients |-> [s \in Sessions |-> FALSE]]
    /\ msg = [c \in Clients |-> [s \in Sessions |-> NoMsg]]
    /\ wrote = [c \in Clients |-> [s \in Sessions |-> "none"]]
    /\ rx = [c \in Clients |-> [s \in Sessions |-> <<>>]]
    /\ stream = [c \in Clients |-> [s \in Sessions |-> <<>>]]
    /\ first_sent = [c \in Clients |-> [s \in Sessions |-> "none"]]
    /\ sent_update = [c \in Clients |-> [s \in Sessions |-> FALSE]]
    /\ changed = [c \in Clients |-> [s \in Sessions |-> FALSE]]
    /\ zpolls = [c \in Clients |-> [s \in Sessions |-> 0]]
    /\ since = [c \in Clients |-> [s \in Sessions |-> 0]]
    /\ pressed = [c \in Clients |-> FALSE]
    /\ owed = [c \in Clients |-> 0]
    /\ events = 0

\* One client against a relay whose other clients are outside the model.
Init == InitWith({"A"}, TRUE)

\* Two clients of the same relay.
InitPair == InitWith(Clients, FALSE)

\* --------------------------------------------------------------- supervisor
\* The tasks spawned before the baseline is sent.
ConnectOk_spawnFirst(c) ==
    /\ sup[c] = "connect"
    /\ sid[c] < MaxSessions
    /\ sid' = [sid EXCEPT ![c] = @ + 1]
    /\ initial_state' = [initial_state EXCEPT ![c] = get_capslock_state(c)]
    /\ sup' = [sup EXCEPT ![c] = "send_initial"]
    /\ write_handle' = [write_handle EXCEPT ![c][sid[c] + 1] = "run"]
    /\ read_handle' = [read_handle EXCEPT ![c][sid[c] + 1] = "init"]
    /\ UNCHANGED <<ind, last_state, msg, wrote, rx, stream, hist, env, owed>>

\* lines 127-133: connect_websocket() returned Ok; split; read the baseline.
ConnectOk(c) ==
    /\ sup[c] = "connect"
    /\ sid[c] < MaxSessions
    /\ sid' = [sid EXCEPT ![c] = @ + 1]
    /\ initial_state' = [initial_state EXCEPT ![c] = get_capslock_state(c)]
    /\ sup' = [sup EXCEPT ![c] = "send_initial"]
    /\ UNCHANGED <<ind, write_handle, read_handle, last_state, msg, wrote, rx, stream,
                   hist, env, owed>>

\* lines 127-133 with 86-91: connect_websocket() returned Ok and the read of
\* the baseline panics (no LED file, or the file cannot be read).  The
\* panic is in main: it unwinds out of the runtime's block_on, the runtime
\* is dropped with every task of the process, the sockets are closed and
\* the process is over.
BaselineReadPanic(c) ==
    /\ sup[c] = "connect"
    /\ events < MaxEvents
    /\ events' = events + 1
    /\ sup' = [sup EXCEPT ![c] = "exited"]
    /\ write_handle' = [write_handle EXCEPT ![c] =
            [s \in Sessions |-> IF @[s] = "run" THEN "done" ELSE @[s]]]
    /\ read_handle' = [read_handle EXCEPT ![c] =
            [s \in Sessions |-> IF Live(@[s]) THEN "done" ELSE @[s]]]
    /\ rx' = [rx EXCEPT ![c] = [s \in Sessions |-> <<>>]]
    /\ stream' = [stream EXCEPT ![c] = [s \in Sessions |-> <<>>]]
    /\ msg' = [msg EXCEPT ![c] = [s \in Sessions |-> NoMsg]]
    /\ wrote' = [wrote EXCEPT ![c] = [s \in Sessions |-> "none"]]
    /\ last_state' = [last_state EXCEPT ![c] = [s \in Sessions |-> FALSE]]
    /\ UNCHANGED <<ind, sid, initial_state, hist, pressed, owed>>

\* lines 127, 191-193: connect_websocket() returned Err.
ConnectErr(c) ==
    /\ sup[c] = "connect"
    /\ events < MaxEvents
    /\ events' = events + 1
    /\ owed' = [owed EXCEPT ![c] = @ + 1]
    /\ sup' = [sup EXCEPT ![c] = "delay"]
    /\ UNCHANGED <<ind, sid, initial_state, write_handle, read_handle, last_state, msg,
                   wrote, rx, stream, hist, pressed>>

\* line 193: sleep(Duration::from_secs(2)) is over, back to the top of the loop.
Delay(c) ==
    /\ sup[c] = "delay"
    /\ owed' = [owed EXCEPT ![c] = @ - 1]
    /\ sup' = [sup EXCEPT ![c] = "connect"]
    /\ UNCHANGED <<ind, sid, initial_state, write_handle, read_handle, last_state, msg,
                   wrote, rx, stream, hist, env>>

\* lines 134, 139-184: the baseline is sent, the channel is created and both
\* tasks are spawned; main then waits in select!.
SendInitialOk(c) ==
    /\ sup[c] = "send_initial"
    /\ LET s == sid[c] IN
       \E echo \in Echoes :
        /\ stream' = Relay(c, s, Encode(initial_state[c]), echo)
        /\ first_sent' = [first_sent EXCEPT ![c][s] =
                            FirstSent(c, @, "baseline", Encode(initial_state[c]))]
        /\ write_handle' = [write_handle EXCEPT ![c][s] = "run"]
        /\ read_handle' = [read_handle EXCEPT ![c][s] = "init"]
    /\ sup' = [sup EXCEPT ![c] = "select"]
    /\ UNCHANGED <<ind, sid, initial_state, last_state, msg, wrote, rx, sent_update, changed,
                   zpolls, since, ind0, relay_echo, env, owed>>

\* lines 134-137: the baseline send failed; continue drops the connection.
SendInitialErr(c) ==
    /\ sup[c] = "send_initial"
    /\ events < MaxEvents
    /\ events' = events + 1
    /\ stream' = [stream EXCEPT ![c][sid[c]] = <<>>]
    /\ sup' = [sup EXCEPT ![c] = "connect"]
    /\ UNCHANGED <<ind, sid, initial_state, write_handle, read_handle, last_state, msg,
                   wrote, rx, hist, pressed, owed>>

\* The supervisor sleeping the 2 seconds after a session as well.
Select_delay(c) ==
    /\ sup[c] = "select"
    /\ \/ write_handle[c][sid[c]] = "done"
       \/ Ended(read_handle[c][sid[c]])
    /\ sup' = [sup EXCEPT ![c] = "delay"]
    /\ UNCHANGED <<ind, sid, initial_state, write_handle, read_handle, last_state, msg,
                   wrote, rx, stream, hist, env, owed>>

\* lines 186-190: one of the two JoinHandles completed; the other handle is
\* dropped (its task is detached, not aborted) and the loop starts over.
Select(c) ==
    /\ sup[c] = "select"
    /\ \/ write_handle[c][sid[c]] = "done"
       \/ Ended(read_handle[c][sid[c]])
    /\ sup' = [sup EXCEPT ![c] = "connect"]
    /\ UNCHANGED <<ind, sid, initial_state, write_handle, read_handle, last_state, msg,
                   wrote, rx, stream, hist, env, owed>>

\* -------------------------------------------------------------- reader task
\* The reader task putting a message at the front of the channel.
ReaderForward_front(c, s) ==
    /\ write_handle[c][s] = "run"
    /\ stream[c][s] # <<>>
    /\ ~Ended(read_handle[c][s])
    /\ rx' = [rx EXCEPT ![c][s] = <<Head(stream[c][s])>> \o @]
    /\ stream' = [stream EXCEPT ![c][s] = Tail(@)]
    /\ since' = [since EXCEPT ![c][s] =
                    IF Head(stream[c][s]).from \in Clients \ {c} THEN 1 ELSE @]
    /\ UNCHANGED <<ind, supv, write_handle, read_handle, last_state, msg, wrote,
                   first_sent, sent_update, changed, zpolls, ind0, relay_echo, env>>

\* lines 143-144: read.next() yielded a message and tx.send(msg) succeeded.
ReaderForward(c, s) ==
    /\ write_handle[c][s] = "run"
    /\ stream[c][s] # <<>>
    /\ ~Ended(read_handle[c][s])
    /\ rx' = [rx EXCEPT ![c][s] = Append(@, Head(stream[c][s]))]
    /\ stream' = [stream EXCEPT ![c][s] = Tail(@)]
    /\ since' = [since EXCEPT ![c][s] =
                    IF Head(stream[c][s]).from \in Clients \ {c} THEN 1 ELSE @]
    /\ UNCHANGED <<ind, supv, write_handle, read_handle, last_state, msg, wrote,
                   first_sent, sent_update, changed, zpolls, ind0, relay_echo, env>>

\* lines 144-147: rx was dropped with the state checker; tx.send fails; break.
ReaderForwardErr(c, s) ==
    /\ write_handle[c][s] = "run"
    /\ stream[c][s] # <<>>
    /\ Ended(read_handle[c][s])
    /\ write_handle' = [write_handle EXCEPT ![c][s] = "done"]
    /\ stream' = [stream EXCEPT ![c][s] = <<>>]
    /\ UNCHANGED <<ind, supv, read_handle, last_state, msg, wrote, rx, hist, env>>

\* line 143: read.next() yielded None or Some(Err(_)); the while let ends.
ReaderEnd(c, s) ==
    /\ write_handle[c][s] = "run"
    /\ events < MaxEvents
    /\ events' = events + 1
    /\ write_handle' = [write_handle EXCEPT ![c][s] = "done"]
    /\ stream' = [stream EXCEPT ![c][s] = <<>>]
    /\ UNCHANGED <<ind, supv, read_handle, last_state, msg, wrote, rx, hist, pressed>>

\* ------------------------------------------------------- state checker task
\* The task is over: rx, the write half and the locals last_state and msg
\* are dropped with it.
Finish(c, s, how) ==
    /\ read_handle' = [read_handle EXCEPT ![c][s] = how]
    /\ rx' = [rx EXCEPT ![c][s] = <<>>]
    /\ last_state' = [last_state EXCEPT ![c][s] = FALSE]
    /\ msg' = [msg EXCEPT ![c][s] = NoMsg]

\* A poll (line 157) after the reader task of the same session has ended.
\* The count is kept for the first session of a client only: the later
\* sessions run the same code and their counts would only multiply states.
Polled(c, s) ==
    IF write_handle[c][s] = "done" /\ s = 1
    THEN [zpolls EXCEPT ![c][s] = Min(@ + 1, 2)]
    ELSE zpolls

\* A dequeue attempt (line 168); counted from the moment a message of another
\* client of the model entered rx: 1 = entered, 2 = one attempt since, 3 = two.
Attempt(c, s) ==
    IF since[c][s] = 0 THEN since
    ELSE [since EXCEPT ![c][s] = Min(@ + 1, 3)]

\* Where the state checker stands after lines 157-165.  With tx dropped and
\* the channel empty, rx.recv() is ready with None at once (line 179) and
\* nothing can be queued any more, so the iteration runs on through its
\* sleep (line 182) to the next poll; otherwise the task waits at line 168.
AfterPoll(c, s) ==
    IF write_handle[c][s] = "done" /\ rx[c][s] = <<>> THEN "poll" ELSE "recv"

\* line 153: let mut last_state = platform::get_capslock_state();
CheckerInit(c, s) ==
    /\ read_handle[c][s] = "init"
    /\ last_state' = [last_state EXCEPT ![c][s] = get_capslock_state(c)]
    /\ read_handle' = [read_handle EXCEPT ![c][s] = "poll"]
    /\ UNCHANGED <<ind, supv, write_handle, msg, wrote, rx, stream, hist, env>>

\* lines 153, 157, 172, 99 with 86-91: a read of the LED by the state
\* checker panics.  The panic is inside a task made by tokio::spawn: the
\* runtime catches it, the task is over and its JoinHandle completes with a
\* JoinError; main and the other tasks go on.
CheckerReadPanic(c, s) ==
    /\ \/ read_handle[c][s] \in {"init", "poll", "set"}
       \/ read_handle[c][s] = "recv" /\ rx[c][s] # <<>>
    /\ events < MaxEvents
    /\ events' = events + 1
    /\ Finish(c, s, "read_panicked")
    /\ UNCHANGED <<ind, supv, write_handle, wrote, stream, hist, pressed>>

\* lines 157-158: current_state == last_state, nothing is sent.
PollSame(c, s) ==
    /\ read_handle[c][s] = "poll"
    /\ get_capslock_state(c) = last_state[c][s]
    /\ read_handle' = [read_handle EXCEPT ![c][s] = AfterPoll(c, s)]
    /\ zpolls' = Polled(c, s)
    /\ UNCHANGED <<ind, supv, write_handle, last_state, msg, wrote, rx, stream,
                   first_sent, sent_update, changed, since, ind0, relay_echo, env>>

\* lines 157-165: current_state != last_state, the send succeeds.
PollSendOk(c, s) ==
    /\ read_handle[c][s] = "poll"
    /\ LET current_state == get_capslock_state(c) IN
        /\ current_state # last_state[c][s]
        /\ \E echo \in Echoes : stream' = Relay(c, s, Encode(current_state), echo)
        /\ first_sent' = [first_sent EXCEPT ![c][s] =
                            FirstSent(c, @, "update", Encode(current_state))]
        /\ last_state' = [last_state EXCEPT ![c][s] = current_state]
    /\ sent_update' = [sent_update EXCEPT ![c][s] = TRUE]
    /\ read_handle' = [read_handle EXCEPT ![c][s] = AfterPoll(c, s)]
    /\ zpolls' = Polled(c, s)
    /\ UNCHANGED <<ind, supv, write_handle, msg, wrote, rx, changed, since, ind0, relay_echo, env>>

\* lines 157-163: current_state != last_state, the send fails; break.
\* On a connection whose reader already ended the failure is no new event.
PollSendErr(c, s) ==
    /\ read_handle[c][s] = "poll"
    /\ get_capslock_state(c) # last_state[c][s]
    /\ IF write_handle[c][s] = "run"
       THEN events < MaxEvents /\ events' = events + 1
       ELSE events' = events
    /\ Finish(c, s, "done")
    /\ zpolls' = Polled(c, s)
    /\ UNCHANGED <<ind, supv, write_handle, wrote, stream,
                   first_sent, sent_update, changed, since, ind0, relay_echo, pressed>>

\* The comparison of line 172 made with last_state, not with a fresh read.
RecvMsg_compareLast(c, s) ==
    /\ read_handle[c][s] = "recv"
    /\ rx[c][s] # <<>>
    /\ LET m == Head(rx[c][s]) IN
        /\ msg' = [msg EXCEPT ![c][s] = m]
        /\ read_handle' = [read_handle EXCEPT ![c][s] =
                IF target_state(m) # last_state[c][s] THEN "set" ELSE "sleep"]
    /\ rx' = [rx EXCEPT ![c][s] = Tail(@)]
    /\ since' = Attempt(c, s)
    /\ UNCHANGED <<ind, supv, write_handle, last_state, wrote, stream,
                   first_sent, sent_update, changed, zpolls, ind0, relay_echo, env>>

\* The apply without the comparison of line 172.
RecvMsg_noReread(c, s) ==
    /\ read_handle[c][s] = "recv"
    /\ rx[c][s] # <<>>
    /\ msg' = [msg EXCEPT ![c][s] = Head(rx[c][s])]
    /\ read_handle' = [read_handle EXCEPT ![c][s] = "set"]
    /\ rx' = [rx EXCEPT ![c][s] = Tail(@)]
    /\ since' = Attempt(c, s)
    /\ UNCHANGED <<ind, supv, write_handle, last_state, wrote, stream,
                   first_sent, sent_update, changed, zpolls, ind0, relay_echo, env>>

\* lines 168-172: rx.recv() yields a message; to_text() is Ok for a text
\* message; the LED is read again and compared with target_state.
RecvMsg(c, s) ==
    /\ read_handle[c][s] = "recv"
    /\ rx[c][s] # <<>>
    /\ LET m == Head(rx[c][s]) IN
        /\ msg' = [msg EXCEPT ![c][s] = m]
        /\ read_handle' = [read_handle EXCEPT ![c][s] =
                IF target_state(m) # get_capslock_state(c) THEN "set" ELSE "sleep"]
    /\ rx' = [rx EXCEPT ![c][s] = Tail(@)]
    /\ since' = Attempt(c, s)
    /\ UNCHANGED <<ind, supv, write_handle, last_state, wrote, stream,
                   first_sent, sent_update, changed, zpolls, ind0, relay_echo, env>>

\* lines 178, 182: the 50 ms timeout elapsed with the channel empty and
\* open; nothing is bound, the task sleeps and starts the next iteration.
RecvTimeout(c, s) ==
    /\ read_handle[c][s] = "recv"
    /\ rx[c][s] = <<>>
    /\ write_handle[c][s] = "run"
    /\ read_handle' = [read_handle EXCEPT ![c][s] = "poll"]
    /\ since' = Attempt(c, s)
    /\ UNCHANGED <<ind, supv, write_handle, last_state, msg, wrote, rx, stream,
                   first_sent, sent_update, changed, zpolls, ind0, relay_echo, env>>

\* lines 179, 182: the reader task ended and dropped tx while the state
\* checker was waiting at line 168 on the empty channel: rx.recv() yields
\* None; the task sleeps and goes on.
RecvClosed(c, s) ==
    /\ read_handle[c][s] = "recv"
    /\ rx[c][s] = <<>>
    /\ write_handle[c][s] = "done"
    /\ read_handle' = [read_handle EXCEPT ![c][s] = "poll"]
    /\ UNCHANGED <<ind, supv, write_handle, last_state, msg, wrote, rx, stream, hist, env>>

\* lines 173-174 with 98-100: set_capslock_state finds the LED already at
\* the target (it changed after line 172) and does nothing.
SetNoop(c, s) ==
    /\ read_handle[c][s] = "set"
    /\ get_capslock_state(c) = target_state(msg[c][s])
    /\ wrote' = [wrote EXCEPT ![c][s] = "noop"]
    /\ last_state' = [last_state EXCEPT ![c][s] = target_state(msg[c][s])]
    /\ read_handle' = [read_handle EXCEPT ![c][s] = "sleep"]
    /\ UNCHANGED <<ind, supv, write_handle, msg, rx, stream, hist, env>>

\* lines 173-174 with 98-105: xdotool toggles the LED.
SetOk(c, s) ==
    /\ read_handle[c][s] = "set"
    /\ get_capslock_state(c) # target_state(msg[c][s])
    /\ ind' = [ind EXCEPT ![c] = target_state(msg[c][s])]
    /\ changed' = Changed(c, target_state(msg[c][s]))
    /\ wrote' = [wrote EXCEPT ![c][s] = "ok"]
    /\ last_state' = [last_state EXCEPT ![c][s] = target_state(msg[c][s])]
    /\ read_handle' = [read_handle EXCEPT ![c][s] = "sleep"]
    /\ UNCHANGED <<supv, write_handle, msg, rx, stream, first_sent, sent_update, zpolls,
                   since, ind0, relay_echo, env>>

\* lines 173-174 with 98-105: xdotool runs and exits without toggling the
\* LED; status() is Ok whatever the exit code, so expect() passes.
SetNoEffect(c, s) ==
    /\ read_handle[c][s] = "set"
    /\ get_capslock_state(c) # target_state(msg[c][s])
    /\ events < MaxEvents
    /\ events' = events + 1
    /\ wrote' = [wrote EXCEPT ![c][s] = "failed"]
    /\ last_state' = [last_state EXCEPT ![c][s] = target_state(msg[c][s])]
    /\ read_handle' = [read_handle EXCEPT ![c][s] = "sleep"]
    /\ UNCHANGED <<ind, supv, write_handle, msg, rx, stream, hist, pressed>>

\* lines 173 with 101-104: xdotool cannot be executed; status() is Err and
\* expect() panics inside the spawned task, which ends the task only.
SetPanic(c, s) ==
    /\ read_handle[c][s] = "set"
    /\ get_capslock_state(c) # target_state(msg[c][s])
    /\ events < MaxEvents
    /\ events' = events + 1
    /\ wrote' = [wrote EXCEPT ![c][s] = "failed"]
    /\ Finish(c, s, "panicked")
    /\ UNCHANGED <<ind, supv, write_handle, stream, hist, pressed>>

\* line 182 after a message was handled: sleep(50 ms), then the next
\* iteration; msg and the result of the write go out of scope.
Sleep(c, s) ==
    /\ read_handle[c][s] = "sleep"
    /\ msg' = [msg EXCEPT ![c][s] = NoMsg]
    /\ wrote' = [wrote EXCEPT ![c][s] = "none"]
    /\ read_handle' = [read_handle EXCEPT ![c][s] = "poll"]
    /\ UNCHANGED <<ind, supv, write_handle, last_state, rx, stream, hist, env>>

\* -------------------------------------------------------------- environment
\* The user presses the caps-lock key of machine c.
UserToggle(c) ==
    /\ sup[c] \notin {"off", "exited"}
    /\ events < MaxEvents
    /\ events' = events + 1
    /\ pressed' = [pressed EXCEPT ![c] = TRUE]
    /\ ind' = [ind EXCEPT ![c] = ~@]
    /\ changed' = Changed(c, ~ind[c])
    /\ UNCHANGED <<supv, write_handle, read_handle, last_state, msg, wrote, rx, stream,
                   first_sent, sent_update, zpolls, since, ind0, relay_echo>>

\* A client outside the model sends p; the relay puts it on connection (c, s).
Inject(c, s, p) ==
    /\ ConnOpen(c, s)
    /\ events < MaxEvents
    /\ events' = events + 1
    /\ stream' = [stream EXCEPT ![c][s] = Append(@, [payload |-> p, from |-> "env"])]
    /\ UNCHANGED <<ind, supv, write_handle, read_handle, last_state, msg, wrote, rx,
                   hist, pressed>>

\* ------------------------------------------------------------ specifications
Next ==
    \/ \E c \in Clients : ConnectOk(c)
    \/ \E c \in Clients : BaselineReadPanic(c)
    \/ \E c \in Clients : ConnectErr(c)
    \/ \E c \in Clients : Delay(c)
    \/ \E c \in Clients : SendInitialOk(c)
    \/ \E c \in Clients : SendInitialErr(c)
    \/ \E c \in Clients : Select(c)
    \/ \E c \in Clients, s \in Sessions : ReaderForward(c, s)
    \/ \E c \in Clients, s \in Sessions : ReaderForwardErr(c, s)
    \/ \E c \in Clients, s \in Sessions : ReaderEnd(c, s)
    \/ \E c \in Clients, s \in Sessions : CheckerInit(c, s)
    \/ \E c \in Clients, s \in Sessions : CheckerReadPanic(c, s)
    \/ \E c \in Clients, s \in Sessions : PollSame(c, s)
    \/ \E c \in Clients, s \in Sessions : PollSendOk(c, s)
    \/ \E c \in Clients, s \in Sessions : PollSendErr(c, s)
    \/ \E c \in Clients, s \in Sessions : RecvMsg(c, s)
    \/ \E c \in Clients, s \in Sessions : RecvTimeout(c, s)
    \/ \E c \in Clients, s \in Sessions : RecvClosed(c, s)
    \/ \E c \in Clients, s \in Sessions : SetNoop(c, s)
    \/ \E c \in Clients, s \in Sessions : SetOk(c, s)
    \/ \E c \in Clients, s \in Sessions : SetNoEffect(c, s)
    \/ \E c \in Clients, s \in Sessions : SetPanic(c, s)
    \/ \E c \in Clients, s \in Sessions : Sleep(c, s)
    \/ \E c \in Clients : UserToggle(c)
    \/ \E c \in Clients, s \in Sessions, p \in Payloads : Inject(c, s, p)

Spec == Init /\ [][Next]_vars

\* Two clients, a transport that stays up and an xdotool that works.
NextPair ==
    \/ \E c \in Clients : ConnectOk(c)
    \/ \E c \in Clients : SendInitialOk(c)
    \/ \E c \in Clients, s \in Sessions : ReaderForward(c, s)
    \/ \E c \in Clients, s \in Sessions : CheckerInit(c, s)
    \/ \E c \in Clients, s \in Sessions : PollSame(c, s)
    \/ \E c \in Clients, s \in Sessions : PollSendOk(c, s)
    \/ \E c \in Clients, s \in Sessions : RecvMsg(c, s)
    \/ \E c \in Clients, s \in Sessions : RecvTimeout(c, s)
    \/ \E c \in Clients, s \in Sessions : SetNoop(c, s)
    \/ \E c \in Clients, s \in Sessions : SetOk(c, s)
    \/ \E c \in Clients, s \in Sessions : Sleep(c, s)
    \/ \E c \in Clients : UserToggle(c)

SpecPair == InitPair /\ [][NextPair]_vars

\* The runtime resumes main when a JoinHandle it awaits in select! (186-189)
\* has completed and when the 2 second sleep (193) is over.
SpecFair ==
    /\ Init
    /\ [][Next]_vars
    /\ \A c \in Clients : WF_vars(Select(c)) /\ WF_vars(Delay(c))

TypeOK ==
    /\ ind \in [Clients -> BOOLEAN]
    /\ sup \in [Clients -> {"off", "connect", "delay", "send_initial", "select", "exited"}]
    /\ sid \in [Clients -> 0..MaxSessions]
    /\ \A c \in Clients, s \in Sessions :
        /\ write_handle[c][s] \in {"none", "run", "done"}
        /\ read_handle[c][s] \in {"none", "init", "poll", "recv", "set", "sleep",
                                  "done", "panicked", "read_panicked"}
        /\ wrote[c][s] \in {"none", "noop", "ok", "failed"}
        /\ zpolls[c][s] \in 0..2
        /\ since[c][s] \in 0..3

\* ------------------------------------------------------------------- claims
Malformed(m) == m.payload \notin {"0", "1", "none"}

\* C1: a remote message whose payload is neither "1" nor "0" is ignored: the
\* state checker that dequeued it does not call set_capslock_state, whatever
\* the LED shows, and goes on to its sleep.
C1_MalformedIgnored ==
    \A c \in Clients, s \in Sessions :
        Malformed(msg[c][s]) =>
            /\ read_handle[c][s] = "sleep"
            /\ wrote[c][s] = "none"

\* C2: once the reader task of a session has ended, the state checker of
\* that session polls the LED at most once more (the cycle it was in).
C2_OutboundStops ==
    \A c \in Clients, s \in Sessions : zpolls[c][s] <= 1

\* C3: at most one session per process: at most one running reader task,
\* one running state checker and one connection in use.
C3_OneSession ==
    \A c \in Clients :
        /\ Cardinality({s \in Sessions : Live(read_handle[c][s])}) <= 1
        /\ Cardinality({s \in Sessions : write_handle[c][s] = "run"}) <= 1
        /\ Cardinality({s \in Sessions : ConnOpen(c, s)}) <= 1

\* The message that carries A's toggled value has been sent by A, has left
\* B's connection for the rx of B's session s, and B's state checker has
\* made two dequeue attempts since and is not in the middle of an apply.
ToggleDelivered(s) ==
    /\ ind0["A"] = ind0["B"]
    /\ events = 1
    /\ pressed["A"]
    /\ ~pressed["B"]
    /\ \E t \in Sessions :
        \/ sent_update["A"][t]
        \/ /\ first_sent["A"][t] = "baseline"
           /\ t = sid["A"]
           /\ initial_state["A"] = ~ind0["A"]
    /\ \A i \in 1..Len(stream["B"][s]) : stream["B"][s][i].from # "A"
    /\ since["B"][s] = 3
    /\ read_handle["B"][s] # "set"

\* C4: two clients with equal LEDs at start, one key press on A's machine:
\* two dequeue attempts of B's state checker after A's message for the new
\* value entered B's rx, B's LED shows the value A toggled to.
C4_SingleToggleConverges ==
    \A s \in Sessions : ToggleDelivered(s) => ind["B"] = ~ind0["B"]

C4_Witness ==
    \E s \in Sessions : ToggleDelivered(s) /\ ind["B"] = ~ind0["B"] /\ ind["A"] = ind["B"]

\* Nothing is left to do: both clients are in a session, nothing is in
\* flight or queued, and no state checker has anything to send or apply.
Quiescent ==
    \A c \in Clients :
        /\ sup[c] = "select"
        /\ \A s \in Sessions :
            /\ stream[c][s] = <<>>
            /\ rx[c][s] = <<>>
            /\ s = sid[c] =>
                /\ read_handle[c][s] = "poll"
                /\ last_state[c][s] = ind[c]

\* C5: two clients whose sessions start with any LED values: once every
\* message has been delivered and processed, with no key pressed meanwhile,
\* the LEDs of the two clients agree.
C5_EventuallyConsistent ==
    (Quiescent /\ ~pressed["A"] /\ ~pressed["B"]) => ind["A"] = ind["B"]

\* The message of c's session s in hand is one c itself sent.
IsEcho(c, s) == msg[c][s].from = c

\* C6 as stated: the state checker never calls set_capslock_state for a
\* message that is the echo of one its own client sent.
C6_EchoNeverWrites ==
    \A c \in Clients, s \in Sessions :
        IsEcho(c, s) => read_handle[c][s] # "set" /\ wrote[c][s] = "none"

\* C6 amended: when the state checker dequeues the echo of a message its
\* client sent and the LED still shows the value of that message, it does
\* not call set_capslock_state.
C6_EchoNoWriteIfUnchanged ==
    [][\A c \in Clients, s \in Sessions :
        (/\ read_handle[c][s] = "recv"
         /\ read_handle'[c][s] # "recv"
         /\ IsEcho(c, s)'
         /\ ind[c] = target_state(msg'[c][s]))
        => read_handle'[c][s] = "sleep" /\ wrote'[c][s] = "none" /\ ind'[c] = ind[c]]_vars

C6_Witness ==
    \E c \in Clients, s \in Sessions :
        /\ IsEcho(c, s)
        /\ read_handle[c][s] = "sleep"
        /\ wrote[c][s] = "none"
        /\ sent_update[c][s]
        /\ ind[c] = target_state(msg[c][s])

\* C7: a session whose LED has not changed since its baseline was read has
\* sent nothing but the baseline.
C7_EdgeTriggered ==
    \A c \in Clients, s \in Sessions :
        ~changed[c][s] => ~sent_update[c][s]

\* C8: a 2 second sleep is owed for every failed connect and for nothing
\* else: main is in the sleep exactly when one failed connect has not been
\* slept for, and it never attempts a connect with a sleep owed; so k failed
\* connects in a row are separated by k sleeps, and the connect after a
\* session that had connected follows without a sleep.
C8_DelayRule ==
    \A c \in Clients :
        /\ sup[c] = "delay" <=> owed[c] = 1
        /\ sup[c] # "delay" <=> owed[c] = 0

\* A session ran and ended, main went straight to the next connect, that
\* connect failed and main is now in the 2 second sleep.
C8_Witness ==
    \E c \in Clients :
        /\ sid[c] = 1
        /\ write_handle[c][1] = "done"
        /\ sup[c] = "delay"
        /\ owed[c] = 1

\* C9: in every session the first message on the connection is the
\* baseline, carrying the value read at line 133; before it neither task of
\* the session exists, so nothing was sent by the state checker and no
\* remote message was queued or applied.
C9_BaselineFirst ==
    \A c \in Clients, s \in Sessions :
        /\ first_sent[c][s] \in {"none", "baseline"}
        /\ first_sent[c][s] = "none" =>
            /\ read_handle[c][s] = "none"
            /\ write_handle[c][s] = "none"
            /\ rx[c][s] = <<>>
            /\ ~sent_update[c][s]

C9_Witness ==
    \E c \in Clients :
        /\ sid[c] = 2
        /\ first_sent[c][2] = "baseline"
        /\ sent_update[c][2]
        /\ ind[c] # initial_state[c]

\* C10: a failed set_capslock_state leaves the state checker running.
C10_WriteFailureNotFatal ==
    \A c \in Clients, s \in Sessions :
        wrote[c][s] = "failed" => Live(read_handle[c][s])

\* C11: a read of the LED that fails ends the process wherever it happens:
\* a client one of whose state checkers ended in the panic of
\* get_capslock_state has a main that is over and attempts no connect.
C11_ReadFailureFatal ==
    \A c \in Clients :
        (\E s \in Sessions : read_handle[c][s] = "read_panicked") => sup[c] = "exited"

\* The retry loop of main: from the 2 second sleep after a failed connect,
\* and from select! once a task of the session has ended, main comes back
\* to the connect; a failed baseline send takes it there in one step.
\* Holds under SpecFair.
RetryEventually ==
    /\ \A c \in Clients :
        (\/ sup[c] = "delay"
         \/ /\ sup[c] = "select"
            /\ \/ write_handle[c][sid[c]] = "done"
               \/ Ended(read_handle[c][sid[c]]))
        ~> sup[c] = "connect"
    /\ [][\A c \in Clients :
            (sup[c] = "send_initial" /\ sup'[c] # "send_initial")
                => sup'[c] \in {"connect", "select"}]_vars

\* C12: whenever main has left a session and is about to connect again (or
\* is in the 2 second sleep before it), the whole of every earlier session
\* is torn down: none of its tasks runs and its connection is not in use.
C12_TornDownBeforeRetry ==
    \A c \in Clients :
        sup[c] \in {"connect", "delay"} =>
            \A s \in Sessions :
                /\ ~Live(read_handle[c][s])
                /\ write_handle[c][s] # "run"
                /\ ~ConnOpen(c, s)

\* C13: set_capslock_state is called for a message only when the state
\* checker has just taken that message from rx and its value differs from
\* the LED as read at that moment, and the call is over before anything
\* else is taken, so there is at most one call per message; a message whose
\* value equals the LED (the same value a second time, say) sends the task
\* to its sleep with no call and no change of the LED; and the task changes
\* the LED only inside such a call, to the value of the message.
C13_IdempotentApply ==
    [][\A c \in Clients, s \in Sessions :
        /\ (read_handle'[c][s] = "set" /\ read_handle[c][s] # "set") =>
                /\ read_handle[c][s] = "recv"
                /\ rx[c][s] # <<>>
                /\ msg'[c][s] = Head(rx[c][s])
                /\ rx'[c][s] = Tail(rx[c][s])
                /\ target_state(msg'[c][s]) # ind[c]
        /\ (read_handle[c][s] = "set" /\ read_handle'[c][s] = "set") =>
                /\ msg'[c][s] = msg[c][s]
                /\ wrote'[c][s] = "none"
        /\ (/\ read_handle[c][s] = "recv"
            /\ msg'[c][s] # msg[c][s]
            /\ target_state(msg'[c][s]) = ind[c]) =>
                /\ read_handle'[c][s] = "sleep"
                /\ wrote'[c][s] = "none"
                /\ ind'[c] = ind[c]
        /\ (wrote'[c][s] # wrote[c][s] /\ wrote'[c][s] # "none") =>
                /\ read_handle[c][s] = "set"
                /\ wrote[c][s] = "none"
        /\ (ind'[c] # ind[c] /\ events' = events) =>
                \E t \in Sessions :
                    /\ read_handle[c][t] = "set"
                    /\ wrote'[c][t] = "ok"
                    /\ ind'[c] = target_state(msg[c][t])]_vars

\* A message of a peer was applied by a write; the next message carries the
\* same value and the state checker has gone to its sleep without a write.
C13_Witness ==
    \E c \in Clients, s \in Sessions :
        /\ sid[c] = 1
        /\ changed[c][s]
        /\ ~pressed[c]
        /\ msg[c][s].from = "env"
        /\ target_state(msg[c][s]) = ind[c]
        /\ read_handle[c][s] = "sleep"
        /\ wrote[c][s] = "none"

\* C14: when the state checker of a session has ended on a failed send, the
\* reader task of that session is cancelled and the connection released:
\* once main has connected again, the connection of the old session is not
\* in use any more and its reader task does not run.
C14_ReaderCancelledOnSendFailure ==
    \A c \in Clients, s \in Sessions :
        (read_handle[c][s] = "done" /\ s < sid[c]) =>
            /\ write_handle[c][s] # "run"
            /\ ~ConnOpen(c, s)

\* C15: a set_capslock_state that fails to bring the LED to the value of
\* the message is not recorded as applied: the step in which the write
\* fails leaves last_state as it was, so that the next poll does not take
\* the unchanged LED for a change made by the user.
C15_FailedWriteNotRecorded ==
    [][\A c \in Clients, s \in Sessions :
        (wrote[c][s] = "none" /\ wrote'[c][s] = "failed")
            => last_state'[c][s] = last_state[c][s]]_vars

\* C16: in every session the messages reach the state checker in the order
\* in which the reader task received them, one at a time.  Step by step:
\* rx changes only by the reader task appending the message it has just
\* read from the connection, by the state checker taking the oldest one, or
\* by being dropped with the state checker; the message in hand changes
\* only to the oldest of rx, when none is in hand, or back to none; and the
\* state checker comes to the dequeue only from a poll and leaves it when
\* it has taken a message, so it takes at most one in an iteration.  Hence
\* what was taken is always a prefix of what was received.
C16_InOrderOneByOne ==
    [][/\ rx' # rx =>
            \A c \in Clients, s \in Sessions :
                rx'[c][s] # rx[c][s] =>
                    \/ /\ stream[c][s] # <<>>
                       /\ rx'[c][s] = Append(rx[c][s], Head(stream[c][s]))
                       /\ stream'[c][s] = Tail(stream[c][s])
                       /\ msg'[c][s] = msg[c][s]
                    \/ /\ read_handle[c][s] = "recv"
                       /\ msg[c][s] = NoMsg
                       /\ msg'[c][s] = Head(rx[c][s])
                       /\ rx'[c][s] = Tail(rx[c][s])
                       /\ stream'[c][s] = stream[c][s]
                    \/ /\ rx'[c][s] = <<>>
                       /\ ~Live(read_handle'[c][s])
       /\ msg' # msg =>
            \A c \in Clients, s \in Sessions :
                msg'[c][s] # msg[c][s] =>
                    \/ msg'[c][s] = NoMsg
                    \/ /\ msg[c][s] = NoMsg
                       /\ read_handle[c][s] = "recv"
                       /\ read_handle'[c][s] \in {"set", "sleep"}
                       /\ rx[c][s] # <<>>
                       /\ msg'[c][s] = Head(rx[c][s])
                       /\ rx'[c][s] = Tail(rx[c][s])
       /\ read_handle' # read_handle =>
            \A c \in Clients, s \in Sessions :
                (read_handle'[c][s] = "recv" /\ read_handle[c][s] # "recv")
                    => read_handle[c][s] = "poll"]_vars

\* The state checker has taken a message while a later one with another
\* payload is queued behind it.
C16_Witness ==
    \E c \in Clients, s \in Sessions :
        /\ msg[c][s] # NoMsg
        /\ read_handle[c][s] \in {"set", "sleep"}
        /\ rx[c][s] # <<>>
        /\ Head(rx[c][s]).payload # msg[c][s].payload

\* C17: a value applied from a remote message by a successful write is not
\* sent back: a session that has seen the LED change since its baseline,
\* on a machine whose key was never pressed (so that every change was a
\* successful set_capslock_state), has sent nothing but its baseline.
C17_NoFeedback ==
    \A c \in Clients, s \in Sessions :
        (changed[c][s] /\ ~pressed[c]) => ~sent_update[c][s]

\* C18: when the state checker of the session main is in starts, its
\* last_state is the value that was sent as the baseline, so that a key
\* pressed at any moment after the baseline read is seen as a change by
\* the first poll and sent.
C18_StartsFromBaseline ==
    [][\A c \in Clients, s \in Sessions :
        (/\ s = sid[c]
         /\ read_handle[c][s] = "init"
         /\ read_handle'[c][s] = "poll")
            => last_state'[c][s] = initial_state[c]]_vars

====
